---- MODULE Spec2Model ----
(***************************************************************************)
(* win-streamshot: window enumeration and lookup (src/lib.rs), the capture *)
(* session WindowScreenshotBuffer (src/lib.rs with the guards of           *)
(* src/wrappers.rs) and the capture WindowBGRBuffer                        *)
(* (src/buffer/window/bgr.rs with its own guards).                         *)
(*                                                                         *)
(* Every operation of the library is one action.  The OS calls an          *)
(* operation issues are recorded, in order, in osLog; what the OS answers  *)
(* to each call is an input of the action.                                 *)
(***************************************************************************)
EXTENDS Integers, Sequences, FiniteSets, TLC

VARIABLES
  target,      \* HWND of the window the sessions are opened on
  osRect,      \* OS: HWND -> RECT of the window
  osContent,   \* OS: what the target window currently shows (a pattern)
  dpiAware,    \* OS: process DPI awareness was set
  outstanding, \* OS: handles handed out less release calls received, per kind
  osLog,       \* OS calls issued by the latest operation, in order
  wsb,         \* WindowScreenshotBuffer {handle, width, height, buffer}
  view,        \* Screenshot<Color> returned by the latest view request
  bgr,         \* WindowBGRBuffer {handle, width, height, buffer}
  last,        \* latest operation, its Result and what its read did
  prev,        \* the view request of the session before the latest one
  calls,       \* operations issued so far
  osWindows,   \* OS: the top-level windows, in walk order
  finder,      \* WindowFinder {windows}, once WindowFinder::new returned Ok
  found        \* what the latest find / find_exact resolved to

vars == <<target, osRect, osContent, dpiAware, outstanding, osLog, wsb,
          view, bgr, last, prev, calls, osWindows, finder, found>>

----------------------------------------------------------------------------
(* Bounds of the model *)

MaxDim == 2

MaxCalls == 2

MaxWindows == 2

(* Program constants *)

ERROR_INVALID_PARAMETER == 87

NULL_HWND == 0

BytesPerPixel == 4

\* the window at place i of the OS walk has HWND i
Hwnds == 1 .. MaxWindows

\* a window side is either collapsed or MaxDim long
Dims == {0, MaxDim}

----------------------------------------------------------------------------
(* Integer widths.  An i32 is an integer of -2^31 .. 2^31 - 1 and its     *)
(* arithmetic wraps.  The wrapped results are computed on two 16-bit       *)
(* limbs <<high, low>> of the 32-bit pattern, so that no intermediate      *)
(* value leaves the i32 range.                                             *)

Limb == 256 * 256

MinI32 == (-2147483647) - 1

\* the 32-bit pattern of an i32
ToU32(x) ==
  IF x >= 0 THEN <<x \div Limb, x % Limb>>
  ELSE <<((x - MinI32) \div Limb) + (Limb \div 2), (x - MinI32) % Limb>>

\* the i32 of a 32-bit pattern
ToI32(u) ==
  IF u[1] < Limb \div 2 THEN u[1] * Limb + u[2]
  ELSE ((u[1] - (Limb \div 2)) * Limb + u[2]) + MinI32

AddU32(a, b) ==
  LET lo == a[2] + b[2] IN <<(a[1] + b[1] + (lo \div Limb)) % Limb, lo % Limb>>

NegU32(a) == AddU32(<<(Limb - 1) - a[1], (Limb - 1) - a[2]>>, <<0, 1>>)

\* a times k, for 0 <= k <= 256
MulSmallU32(a, k) ==
  LET lo == a[2] * k IN <<(a[1] * k + (lo \div Limb)) % Limb, lo % Limb>>

MulU32(a, b) ==
  LET b0 == b[2] % 256
      b1 == b[2] \div 256
      b2 == b[1] % 256
      b3 == b[1] \div 256
      Shl8(x) == MulSmallU32(x, 256)
  IN AddU32(MulSmallU32(a, b0),
       Shl8(AddU32(MulSmallU32(a, b1),
         Shl8(AddU32(MulSmallU32(a, b2), Shl8(MulSmallU32(a, b3)))))))

\* x - y and x * y in i32
Sub32(x, y) == ToI32(AddU32(ToU32(x), NegU32(ToU32(y))))

Mul32(x, y) == ToI32(MulU32(ToU32(x), ToU32(y)))

\* `as u32` of an i32: the same 32-bit pattern, here for x >= 0
AsU32(x) == x

\* p is the product of x and y in the integers; x and y are not both
\* negative.  Decided by division, so that no value leaves the i32 range.
IsProduct(p, x, y) ==
  IF x = 0 \/ y = 0 THEN p = 0
  ELSE IF y > 0 THEN p % y = 0 /\ p \div y = x
  ELSE p % x = 0 /\ p \div x = y

\* x * y does not fit an i32: a build with overflow checks panics here, a
\* build without them goes on with the wrapped product
MulOverflows(x, y) == ~IsProduct(Mul32(x, y), x, y)

----------------------------------------------------------------------------
(* Pixels.  A pixel is four bytes, blue first, as the OS supplies them.    *)

Kinds == {"screen", "memory", "bitmap"}

Patterns == {"black", "mixed"}

\* the i-th pixel of a pattern
PixelOf(p, i) ==
  IF p = "black" THEN <<0, 0, 0, 0>>
  ELSE IF i % 2 = 1 THEN <<1, 2, 3, 0>> ELSE <<6, 5, 4, 9>>

\* the bytes of n pixels of pattern p, rows top to bottom
Paint(p, n) ==
  [k \in 1 .. BytesPerPixel * n |->
     PixelOf(p, ((k - 1) \div BytesPerPixel) + 1)[((k - 1) % BytesPerPixel) + 1]]

Zeros(n) == [k \in 1 .. n |-> 0]

Area(w, h) == IF w > 0 /\ h > 0 THEN w * h ELSE 0

----------------------------------------------------------------------------
(* OS calls.  An entry of osLog: the call, its window argument, the        *)
(* context and the object handle it is given or returns, a number (rows,   *)
(* width) and whether the OS reported success.                             *)

NoH == <<"none", 0>>

Ev(call, hwnd, hdc, obj, n, ok) ==
  [call |-> call, hwnd |-> hwnd, hdc |-> hdc, obj |-> obj, n |-> n, ok |-> ok]

\* What the OS answers to the calls of one operation: whether each call
\* succeeds, what GetDIBits returns, and junk, the contents a bitmap is
\* created with (the OS does not define them).  The answer to a call that
\* follows a failed one is never asked for and is fixed.
OsOutcomes(rectSet, printSet, junkSet) ==
  {os \in [getdc : BOOLEAN, rect : rectSet, createdc : BOOLEAN, createbmp : BOOLEAN,
           select : BOOLEAN, print : printSet, dibits : {"ok", "zero", "invalid"},
           junk : junkSet] :
     /\ ~os.getdc => os.rect
     /\ ~(os.getdc /\ os.rect) => os.createdc
     /\ ~(os.getdc /\ os.rect /\ os.createdc) => os.createbmp
     /\ ~(os.getdc /\ os.rect /\ os.createdc /\ os.createbmp) => os.select
     /\ ~(os.getdc /\ os.rect /\ os.createdc /\ os.createbmp /\ os.select) => os.print
     /\ ~(os.getdc /\ os.rect /\ os.createdc /\ os.createbmp /\ os.select /\ os.print)
          => (os.dibits = "ok" /\ os.junk = "black")}

\* WindowScreenshotBuffer::read asks for no rectangle and renders nothing
OsOutcomesWsb == OsOutcomes({TRUE}, {TRUE}, Patterns)

\* WindowBGRBuffer::read renders before it extracts
OsOutcomesBgr == OsOutcomes(BOOLEAN, BOOLEAN, {"black"})

\* the answers to the two calls of WindowScreenshotBuffer::new
OsOutcomesNew ==
  [getdc : {TRUE}, rect : BOOLEAN, createdc : {TRUE}, createbmp : {TRUE},
   select : {TRUE}, print : {TRUE}, dibits : {"ok"}, junk : {"black"}]

AcquireCalls == {"GetDC", "CreateCompatibleDC", "CreateCompatibleBitmap"}

ReleaseCalls == {"ReleaseDC", "DeleteDC", "DeleteObject"}

Acquisitions(log, kind) ==
  Cardinality({i \in DOMAIN log :
     log[i].call \in AcquireCalls /\ log[i].ok /\ log[i].obj[1] = kind})

Releases(log, kind) ==
  Cardinality({i \in DOMAIN log :
     log[i].call \in ReleaseCalls /\ log[i].obj[1] = kind})

----------------------------------------------------------------------------
(* The OS side of the calls.  A handle is <<kind, serial>>: the handles    *)
(* the OS hands out during one operation carry the serial of the           *)
(* operation, so no two operations are given the same handle.              *)

OsGetDC(hwnd, os, serial) ==
  IF os.getdc
    THEN Ev("GetDC", hwnd, NoH, <<"screen", serial>>, 0, TRUE)
    ELSE Ev("GetDC", hwnd, NoH, NoH, 0, FALSE)

OsCreateCompatibleDC(hdc, os, serial) ==
  IF os.createdc
    THEN Ev("CreateCompatibleDC", -1, hdc, <<"memory", serial>>, 0, TRUE)
    ELSE Ev("CreateCompatibleDC", -1, hdc, NoH, 0, FALSE)

OsCreateCompatibleBitmap(hdc, w, h, os, serial) ==
  IF os.createbmp
    THEN Ev("CreateCompatibleBitmap", -1, hdc, <<"bitmap", serial>>,
            Area(w, h), TRUE)
    ELSE Ev("CreateCompatibleBitmap", -1, hdc, NoH, Area(w, h), FALSE)

OsGetWindowRect(hwnd, os) == Ev("GetWindowRect", hwnd, NoH, NoH, 0, os.rect)

OsSetProcessDpiAwareness == Ev("SetProcessDpiAwareness", -1, NoH, NoH, 0, TRUE)

OsSelectObject(hdc, obj, os) == Ev("SelectObject", -1, hdc, obj, 0, os.select)

OsPrintWindow(hwnd, hdc, os) == Ev("PrintWindow", hwnd, hdc, NoH, 0, os.print)

Min(a, b) == IF a < b THEN a ELSE b

Abs(x) == IF x < 0 THEN -x ELSE x

\* GetDIBits returns the number of scan lines it copied, 0 when it fails
\* and ERROR_INVALID_PARAMETER when it rejects a parameter.  A header of
\* width 0 or height 0 describes no scan line.  ok: the OS did the copy.
OsGetDIBits(hdc, hbitmap, cLines, biWidth, biHeight, os) ==
  LET rows == CASE os.dibits = "invalid" -> ERROR_INVALID_PARAMETER
                [] os.dibits = "zero"    -> 0
                [] OTHER -> IF biWidth <= 0 \/ biHeight = 0
                              THEN 0 ELSE Min(cLines, Abs(biHeight))
  IN Ev("GetDIBits", -1, hdc, hbitmap, rows, os.dibits = "ok")

\* the bytes at the destination pointer after the call: the scan lines
\* copied replace what was there, from the first byte on
Filled(dest, bits, gdb, biWidth) ==
  IF gdb.ok
    THEN [k \in 1 .. Len(dest) |->
            IF k <= BytesPerPixel * biWidth * gdb.n /\ k <= Len(bits)
              THEN bits[k] ELSE dest[k]]
    ELSE dest

----------------------------------------------------------------------------
(* src/wrappers.rs: the guards of WindowScreenshotBuffer::read.  A         *)
(* constructor yields the OS call; its handle is the guard's inner when    *)
(* the call succeeded.  drop yields the release calls of the guard.        *)

HdcWrapper_get_dc(hwnd, os, serial) == OsGetDC(hwnd, os, serial)

\* mutant: the context is released against the first window
HdcWrapper_drop_ToWindow(inner) == <<Ev("ReleaseDC", 1, NoH, inner, 0, TRUE)>>

\* mutant: the guard has no Drop
HdcWrapper_drop_Forgotten(inner) == <<>>

HdcWrapper_drop(inner) == <<Ev("ReleaseDC", NULL_HWND, NoH, inner, 0, TRUE)>>

CreatedHdcWrapper_create_compatible_dc(hdc, os, serial) ==
  OsCreateCompatibleDC(hdc, os, serial)

CreatedHdcWrapper_drop(inner) == <<Ev("DeleteDC", -1, NoH, inner, 0, TRUE)>>

\* mutant: the bitmap is as high as it is wide
HbitmapWrapper_create_compatible_bitmap_Square(hdc, w, h, os, serial) ==
  OsCreateCompatibleBitmap(hdc, w, w, os, serial)

HbitmapWrapper_create_compatible_bitmap(hdc, w, h, os, serial) ==
  OsCreateCompatibleBitmap(hdc, w, h, os, serial)

HbitmapWrapper_drop(inner) == <<Ev("DeleteObject", -1, NoH, inner, 0, TRUE)>>

----------------------------------------------------------------------------
(* src/lib.rs: WindowScreenshotBuffer *)

NoSession == [open |-> FALSE, handle |-> NULL_HWND, width |-> 0, height |-> 0,
              buffer |-> <<>>]

NoView == [tag |-> "none", width |-> 0, height |-> 0]

Width(rect) == Sub32(rect.right, rect.left)

Height(rect) == Sub32(rect.bottom, rect.top)

\* mutant: the byte length counts pixels, not bytes
BufferLen_Pixels(width, height) == Mul32(width, height)

\* 4 * width * height, in i32
BufferLen(width, height) == Mul32(Mul32(BytesPerPixel, width), height)

\* mutant: open takes the screen context and keeps it
WSB_new_KeepsContext(handle, rects, os, checks) ==
  LET dpi == OsSetProcessDpiAwareness
      gwr == OsGetWindowRect(handle, os)
      dc == OsGetDC(handle, os, 0)
      width == Width(rects[handle])
      height == Height(rects[handle])
  IN IF ~gwr.ok
       THEN [ok |-> FALSE, panic |-> FALSE, self |-> NoSession, log |-> <<dpi, gwr>>]
       ELSE [ok |-> TRUE, panic |-> FALSE,
             self |-> [open |-> TRUE, handle |-> handle, width |-> width,
                       height |-> height,
                       buffer |-> Zeros(Mul32(Mul32(BytesPerPixel, width), height))],
             log |-> <<dpi, gwr, dc>>]

\* Whether the build has overflow checks: it is asked for only where a
\* product of 4 * width * height does not fit, and fixed elsewhere.
OverflowChecks(rect) ==
  IF \/ MulOverflows(BytesPerPixel, Width(rect))
     \/ MulOverflows(Mul32(BytesPerPixel, Width(rect)), Height(rect))
    THEN BOOLEAN ELSE {FALSE}

\* WindowScreenshotBuffer::new: Ok(session), Err or a panic, and the OS
\* calls made.  checks: the build has overflow checks (a debug build), and
\* 4 * width * height panics when a product does not fit; without them the
\* product wraps.  `as usize` of a negative i32 is above isize::MAX, and
\* vec! panics on such a length (capacity overflow).
WSB_new(handle, rects, os, checks) ==
  LET dpi == OsSetProcessDpiAwareness
      gwr == OsGetWindowRect(handle, os)
      rect == rects[handle]
      width == Width(rect)
      height == Height(rect)
      overflows == \/ MulOverflows(BytesPerPixel, width)
                   \/ MulOverflows(Mul32(BytesPerPixel, width), height)
  IN IF ~gwr.ok
       THEN [ok |-> FALSE, panic |-> FALSE, self |-> NoSession, log |-> <<dpi, gwr>>]
     ELSE IF (checks /\ overflows) \/ BufferLen(width, height) < 0
       THEN [ok |-> FALSE, panic |-> TRUE, self |-> NoSession, log |-> <<dpi, gwr>>]
       ELSE [ok |-> TRUE, panic |-> FALSE,
             self |-> [open |-> TRUE, handle |-> handle, width |-> width,
                       height |-> height,
                       buffer |-> Zeros(BufferLen(width, height))],
             log |-> <<dpi, gwr>>]

Ret(ok, buffer, log) == [ok |-> ok, buffer |-> buffer, log |-> log]

\* WindowScreenshotBuffer::read.  The guards are dropped in the reverse of
\* their declaration when the function returns, on every path.
WSB_read(self, os, serial) ==
  LET dc == HdcWrapper_get_dc(self.handle, os, serial) IN
  IF ~dc.ok THEN Ret(FALSE, self.buffer, <<dc>>) ELSE
  LET hdc_screen == dc.obj
      cdc == CreatedHdcWrapper_create_compatible_dc(hdc_screen, os, serial) IN
  IF ~cdc.ok
    THEN Ret(FALSE, self.buffer, <<dc, cdc>> \o HdcWrapper_drop(hdc_screen)) ELSE
  LET hdc == cdc.obj
      bm == HbitmapWrapper_create_compatible_bitmap(
              hdc_screen, self.width, self.height, os, serial) IN
  IF ~bm.ok
    THEN Ret(FALSE, self.buffer,
             <<dc, cdc, bm>> \o CreatedHdcWrapper_drop(hdc)
                             \o HdcWrapper_drop(hdc_screen)) ELSE
  LET hbitmap == bm.obj
      drops == HbitmapWrapper_drop(hbitmap) \o CreatedHdcWrapper_drop(hdc)
                 \o HdcWrapper_drop(hdc_screen)
      sel == OsSelectObject(hdc, hbitmap, os) IN
  IF ~sel.ok THEN Ret(FALSE, self.buffer, <<dc, cdc, bm, sel>> \o drops) ELSE
  LET \* nothing was drawn into the bitmap: it holds what it was created with
      bits == Paint(os.junk, Area(self.width, self.height))
      gdb == OsGetDIBits(hdc, hbitmap, AsU32(self.height), self.width,
                         -self.height, os)
      buffer == Filled(self.buffer, bits, gdb, self.width)
      log == <<dc, cdc, bm, sel, gdb>> \o drops
  IN IF gdb.n = 0 \/ gdb.n = ERROR_INVALID_PARAMETER
       THEN Ret(FALSE, buffer, log)
       ELSE Ret(TRUE, buffer, log)

\* mutant: pixel.swap(0, 1)
SwapPixels_FirstTwo(buffer) ==
  [k \in 1 .. Len(buffer) |->
     CASE (k - 1) % BytesPerPixel = 0 -> buffer[k + 1]
       [] (k - 1) % BytesPerPixel = 1 -> buffer[k - 1]
       [] OTHER -> buffer[k]]

\* buffer.chunks_exact_mut(4).for_each(|pixel| pixel.swap(0, 2))
SwapPixels(buffer) ==
  LET whole == (Len(buffer) \div BytesPerPixel) * BytesPerPixel IN
  [k \in 1 .. Len(buffer) |->
     IF k > whole THEN buffer[k]
     ELSE CASE (k - 1) % BytesPerPixel = 0 -> buffer[k + 2]
            [] (k - 1) % BytesPerPixel = 2 -> buffer[k - 2]
            [] OTHER -> buffer[k]]

\* mutant: the native view is handed back without a read
WSB_get_bgr_screenshot_Stale(self, os, serial) ==
  [ok |-> TRUE, buffer |-> self.buffer, read |-> self.buffer,
   view |-> [tag |-> "BGRA", width |-> AsU32(self.width),
             height |-> AsU32(self.height)],
   log |-> <<>>]

\* get_bgr_screenshot: self.read()? then the view
WSB_get_bgr_screenshot(self, os, serial) ==
  LET r == WSB_read(self, os, serial) IN
  IF ~r.ok
    THEN [ok |-> FALSE, buffer |-> r.buffer, read |-> r.buffer, view |-> NoView,
          log |-> r.log]
    ELSE [ok |-> TRUE, buffer |-> r.buffer, read |-> r.buffer,
          view |-> [tag |-> "BGRA", width |-> AsU32(self.width),
                    height |-> AsU32(self.height)],
          log |-> r.log]

\* mutant: the Result of read is not looked at before the swap
WSB_get_rgb_screenshot_Unchecked(self, os, serial) ==
  LET r == WSB_read(self, os, serial) IN
  [ok |-> r.ok, buffer |-> SwapPixels(r.buffer), read |-> r.buffer,
   view |-> IF r.ok THEN [tag |-> "RGBA", width |-> AsU32(self.width),
                          height |-> AsU32(self.height)]
            ELSE NoView,
   log |-> r.log]

\* get_rgb_screenshot: self.read()? then the swap in place, then the view
WSB_get_rgb_screenshot(self, os, serial) ==
  LET r == WSB_read(self, os, serial) IN
  IF ~r.ok
    THEN [ok |-> FALSE, buffer |-> r.buffer, read |-> r.buffer, view |-> NoView,
          log |-> r.log]
    ELSE [ok |-> TRUE, buffer |-> SwapPixels(r.buffer), read |-> r.buffer,
          view |-> [tag |-> "RGBA", width |-> AsU32(self.width),
                    height |-> AsU32(self.height)],
          log |-> r.log]

----------------------------------------------------------------------------
(* src/buffer/window/bgr.rs: the guards of WindowBGRBuffer::read *)

Hdc_get_dc(hwnd, os, serial) == OsGetDC(hwnd, os, serial)

Hdc_drop(hdc) == <<Ev("ReleaseDC", NULL_HWND, NoH, hdc, 0, TRUE)>>

CreatedHdc_create_compatible_dc(hdc, os, serial) == OsCreateCompatibleDC(hdc, os, serial)

CreatedHdc_drop(hdc) == <<Ev("DeleteDC", -1, NoH, hdc, 0, TRUE)>>

\* From<CreatedHdc> for HDC takes the guard by value: the guard is dropped
\* when the conversion returns, and the raw handle is what is left
CreatedHdc_into_HDC(hdc) == CreatedHdc_drop(hdc)

Hbitmap_create_compatible_bitmap(hdc, w, h, os, serial) ==
  OsCreateCompatibleBitmap(hdc, w, h, os, serial)

Hbitmap_drop(hbitmap) == <<Ev("DeleteObject", -1, NoH, hbitmap, 0, TRUE)>>

\* get_di_bits_into: the GetDIBits call, Err on 0 or ERROR_INVALID_PARAMETER
get_di_bits_into(hdc, hbitmap, height, biWidth, biHeight, os) ==
  LET gdb == OsGetDIBits(hdc, hbitmap, height, biWidth, biHeight, os) IN
  [ok |-> ~(gdb.n = 0 \/ gdb.n = ERROR_INVALID_PARAMETER), gdb |-> gdb]

\* The session as open leaves it: the rectangle's size and a zero-filled
\* buffer of the byte length of the rectangle.
BGR_open(handle, rects) ==
  [handle |-> handle, width |-> AsU32(Width(rects[handle])),
   height |-> AsU32(Height(rects[handle])),
   buffer |-> Zeros(BufferLen(Width(rects[handle]), Height(rects[handle]))),
   spare |-> <<>>]

BRet(ok, buffer, spare, log) ==
  [ok |-> ok, buffer |-> buffer, spare |-> spare, log |-> log]

\* WindowBGRBuffer::read.  buffer is the Vec's elements; spare is its
\* capacity past the length, where GetDIBits writes through the pointer.
\* buffer.clear() comes first: the length is 0 on every path, and what the
\* Vec held stays in its capacity.
BGR_read(self, rects, content, os, serial) ==
  LET held == self.buffer \o self.spare
      hwnd == self.handle
      dpi == OsSetProcessDpiAwareness
      dc == Hdc_get_dc(hwnd, os, serial) IN
  IF ~dc.ok THEN BRet(FALSE, <<>>, held, <<dpi, dc>>) ELSE
  LET hdc_screen == dc.obj
      gwr == OsGetWindowRect(hwnd, os) IN
  IF ~gwr.ok
    THEN BRet(FALSE, <<>>, held, <<dpi, dc, gwr>> \o Hdc_drop(hdc_screen)) ELSE
  LET rect_width == Width(rects[hwnd])
      rect_height == Height(rects[hwnd])
      cdc == CreatedHdc_create_compatible_dc(hdc_screen, os, serial) IN
  IF ~cdc.ok
    THEN BRet(FALSE, <<>>, held,
              <<dpi, dc, gwr, cdc>> \o Hdc_drop(hdc_screen)) ELSE
  LET hdc == cdc.obj
      bm == Hbitmap_create_compatible_bitmap(
              hdc_screen, rect_width, rect_height, os, serial) IN
  IF ~bm.ok
    THEN BRet(FALSE, <<>>, held,
              <<dpi, dc, gwr, cdc, bm>> \o CreatedHdc_drop(hdc)
                                        \o Hdc_drop(hdc_screen)) ELSE
  LET hbitmap == bm.obj
      drops == Hbitmap_drop(hbitmap) \o CreatedHdc_drop(hdc) \o Hdc_drop(hdc_screen)
      sel == OsSelectObject(hdc, hbitmap, os) IN
  IF ~sel.ok
    THEN BRet(FALSE, <<>>, held, <<dpi, dc, gwr, cdc, bm, sel>> \o drops) ELSE
  LET pw == OsPrintWindow(hwnd, hdc, os) IN
  IF ~pw.ok
    THEN BRet(FALSE, <<>>, held, <<dpi, dc, gwr, cdc, bm, sel, pw>> \o drops) ELSE
  LET bits == Paint(content, Area(rect_width, rect_height))
      \* self.buffer.reserve((4 * rect_width * rect_height) as usize)
      need == BufferLen(rect_width, rect_height)
      reserved == IF Len(held) >= need THEN held ELSE Zeros(need)
      \* hdc.into() is evaluated, and the guard dropped, before the call
      moved == CreatedHdc_into_HDC(hdc)
      r == get_di_bits_into(hdc, hbitmap, AsU32(rect_height), rect_width,
                            -rect_height, os)
      spare == Filled(reserved, bits, r.gdb, rect_width)
      log == <<dpi, dc, gwr, cdc, bm, sel, pw>> \o moved \o <<r.gdb>>
               \o Hbitmap_drop(hbitmap) \o Hdc_drop(hdc_screen)
  IN BRet(r.ok, <<>>, spare, log)

----------------------------------------------------------------------------
(* The state machine of a capture *)

Rects == {[left |-> 10, top |-> 20, right |-> 10 + w, bottom |-> 20 + h] :
            w \in Dims, h \in Dims}

NoCount == [k \in Kinds |-> 0]

NoFinder == [built |-> FALSE, windows |-> <<>>]

NoFound == [op |-> "none", name |-> <<>>, some |-> FALSE, handle |-> NULL_HWND,
            ok |-> FALSE]

NoRead == [op |-> "none", ok |-> TRUE, read |-> <<>>, content |-> "black"]

\* every call of the operation succeeds
OsAllOk ==
  [getdc |-> TRUE, rect |-> TRUE, createdc |-> TRUE, createbmp |-> TRUE,
   select |-> TRUE, print |-> TRUE, dibits |-> "ok", junk |-> "black"]

Init ==
  /\ target = 1
  /\ \E r \in Rects : osRect = [h \in Hwnds |-> r]
  /\ osContent \in Patterns
  /\ dpiAware = TRUE
  /\ outstanding = NoCount
  /\ osLog = WSB_new(target, osRect, OsAllOk, FALSE).log
  /\ wsb = WSB_new(target, osRect, OsAllOk, FALSE).self
  /\ view = NoView
  /\ bgr = BGR_open(target, osRect)
  /\ last = [NoRead EXCEPT !.op = "new"]
  /\ prev = NoRead
  /\ calls = 0
  /\ osWindows = <<>>
  /\ finder = NoFinder
  /\ found = NoFound

\* the OS counts what the calls of an operation acquired and released
Issue(log) ==
  /\ osLog' = log
  /\ outstanding' = [k \in Kinds |->
       outstanding[k] + Acquisitions(log, k) - Releases(log, k)]
  /\ calls' = calls + 1

\* WindowScreenshotBuffer::new(target)
New ==
  /\ calls < MaxCalls
  /\ \E os \in OsOutcomesNew, checks \in OverflowChecks(osRect[target]) :
       LET r == WSB_new(target, osRect, os, checks) IN
       /\ wsb' = IF r.ok THEN r.self ELSE wsb
       /\ view' = IF r.ok THEN NoView ELSE view
       /\ last' = [NoRead EXCEPT !.op = "new", !.ok = r.ok]
       /\ prev' = NoRead
       /\ dpiAware' = TRUE
       /\ Issue(r.log)
  /\ UNCHANGED <<target, osRect, osContent, bgr, osWindows, finder, found>>

\* what a view request did: its Result, the buffer as its read left it and
\* what the window showed
ReadOf(op, r) == [op |-> op, ok |-> r.ok, read |-> r.read, content |-> osContent]

GetBgrScreenshot ==
  /\ calls < MaxCalls
  /\ wsb.open
  /\ \E os \in OsOutcomesWsb :
       LET r == WSB_get_bgr_screenshot(wsb, os, calls + 1) IN
       /\ wsb' = [wsb EXCEPT !.buffer = r.buffer]
       /\ view' = r.view
       /\ last' = ReadOf("get_bgr_screenshot", r)
       /\ Issue(r.log)
  /\ prev' = last
  /\ UNCHANGED <<target, osRect, osContent, dpiAware, bgr, osWindows, finder, found>>

GetRgbScreenshot ==
  /\ calls < MaxCalls
  /\ wsb.open
  /\ \E os \in OsOutcomesWsb :
       LET r == WSB_get_rgb_screenshot(wsb, os, calls + 1) IN
       /\ wsb' = [wsb EXCEPT !.buffer = r.buffer]
       /\ view' = r.view
       /\ last' = ReadOf("get_rgb_screenshot", r)
       /\ Issue(r.log)
  /\ prev' = last
  /\ UNCHANGED <<target, osRect, osContent, dpiAware, bgr, osWindows, finder, found>>

\* WindowBGRBuffer::read
BgrRead ==
  /\ calls < MaxCalls
  /\ \E os \in OsOutcomesBgr :
       LET r == BGR_read(bgr, osRect, osContent, os, calls + 1) IN
       /\ bgr' = [bgr EXCEPT !.buffer = r.buffer, !.spare = r.spare]
       /\ last' = [NoRead EXCEPT !.op = "bgr_read", !.ok = r.ok]
       /\ Issue(r.log)
  /\ prev' = NoRead
  /\ dpiAware' = TRUE
  /\ UNCHANGED <<target, osRect, osContent, wsb, view, osWindows, finder, found>>

\* the window is moved or resized by its owner
Resize ==
  /\ \E r \in Rects \ {osRect[target]} : osRect' = [osRect EXCEPT ![target] = r]
  /\ UNCHANGED <<target, osContent, dpiAware, outstanding, osLog, wsb, view,
                 bgr, last, prev, calls, osWindows, finder, found>>

\* the window draws something else
Repaint ==
  /\ \E p \in Patterns \ {osContent} : osContent' = p
  /\ UNCHANGED <<target, osRect, dpiAware, outstanding, osLog, wsb, view,
                 bgr, last, prev, calls, osWindows, finder, found>>

Next == New \/ GetBgrScreenshot \/ GetRgbScreenshot \/ BgrRead \/ Resize \/ Repaint

Spec == Init /\ [][Next]_vars

----------------------------------------------------------------------------
(* src/lib.rs: window enumeration and lookup.                              *)
(* A title is a sequence of UTF-16 units: "a" and "b" are letters, "D8" is *)
(* a high surrogate that no low surrogate follows, "NUL" is the unit 0.    *)
(* A String is a sequence of chars: "a", "b", "NUL" and "FFFD", the        *)
(* replacement character.                                                  *)

\* What the OS holds for a window during the walk: whether it is visible,
\* the title GetWindowTextW copies from, the length GetWindowTextLengthW
\* reports (the title may change between the two calls, and the length may
\* be over-reported), and whether GetWindowTextW succeeds.
OsWindowKinds ==
  { [visible |-> TRUE,  text |-> <<"a">>,       textLen |-> 1, textRead |-> TRUE],
    [visible |-> TRUE,  text |-> <<"a", "b">>,  textLen |-> 2, textRead |-> TRUE],
    [visible |-> TRUE,  text |-> <<"b">>,       textLen |-> 1, textRead |-> TRUE],
    [visible |-> FALSE, text |-> <<"a">>,       textLen |-> 1, textRead |-> TRUE],
    [visible |-> TRUE,  text |-> <<>>,          textLen |-> 0, textRead |-> TRUE],
    [visible |-> TRUE,  text |-> <<"a">>,       textLen |-> 1, textRead |-> FALSE],
    [visible |-> TRUE,  text |-> <<"a">>,       textLen |-> 2, textRead |-> TRUE],
    [visible |-> TRUE,  text |-> <<"a", "b">>,  textLen |-> 1, textRead |-> TRUE],
    [visible |-> TRUE,  text |-> <<"a", "D8">>, textLen |-> 2, textRead |-> TRUE] }

\* String::from_utf16_lossy: an unpaired surrogate becomes U+FFFD
from_utf16_lossy(units) ==
  [k \in 1 .. Len(units) |-> IF units[k] = "D8" THEN "FFFD" ELSE units[k]]

\* GetWindowTextW(hwnd, buf): copies at most Len(buf) - 1 units of the
\* title into buf, ends them with a NUL, and returns the number copied,
\* 0 when it fails or the title is empty
OsGetWindowTextW(w, buf) ==
  LET n == IF w.textRead THEN Min(Len(w.text), Len(buf) - 1) ELSE 0 IN
  [ret |-> n,
   buf |-> [k \in 1 .. Len(buf) |->
              IF n > 0 /\ k <= n THEN w.text[k]
              ELSE IF n > 0 /\ k = n + 1 THEN "NUL" ELSE buf[k]]]

\* mutant: the visibility of the window is not looked at
wl_callback_AnyWindow(hwnd, w, windows) ==
  LET window_text_length == w.textLen
      got == OsGetWindowTextW(w, [k \in 1 .. window_text_length + 1 |-> "NUL"])
  IN IF window_text_length = 0 \/ got.ret = 0
       THEN [continue |-> TRUE, windows |-> windows]
       ELSE [continue |-> TRUE,
             windows |-> Append(windows,
                [handle |-> hwnd,
                 name |-> from_utf16_lossy(SubSeq(got.buf, 1, Len(got.buf) - 1))])]

\* mutant: a title that cannot be read stops the walk
wl_callback_StopsAtUnreadable(hwnd, w, windows) ==
  IF ~w.visible \/ w.textLen = 0 THEN [continue |-> TRUE, windows |-> windows] ELSE
  LET got == OsGetWindowTextW(w, [k \in 1 .. w.textLen + 1 |-> "NUL"]) IN
  IF got.ret = 0 THEN [continue |-> FALSE, windows |-> windows] ELSE
  [continue |-> TRUE,
   windows |-> Append(windows,
      [handle |-> hwnd,
       name |-> from_utf16_lossy(SubSeq(got.buf, 1, Len(got.buf) - 1))])]

\* wl_callback(hwnd, lparam): what it returns to the walk, and the Vec
\* behind lparam after it.  w is what the OS holds for hwnd.
wl_callback(hwnd, w, windows) ==
  IF ~w.visible THEN [continue |-> TRUE, windows |-> windows] ELSE
  LET window_text_length == w.textLen IN
  IF window_text_length = 0 THEN [continue |-> TRUE, windows |-> windows] ELSE
  LET name_buf == [k \in 1 .. window_text_length + 1 |-> "NUL"]
      got == OsGetWindowTextW(w, name_buf)
  IN IF got.ret = 0 THEN [continue |-> TRUE, windows |-> windows] ELSE
     \* split_last: all but the last unit
     IF Len(got.buf) = 0 THEN [continue |-> TRUE, windows |-> windows] ELSE
     LET name == from_utf16_lossy(SubSeq(got.buf, 1, Len(got.buf) - 1)) IN
     [continue |-> TRUE,
      windows |-> Append(windows, [handle |-> hwnd, name |-> name])]

\* EnumWindows: the callback is given each window in walk order until it
\* returns FALSE; the walk fails when the OS aborts it (after the first
\* `abort` windows) or the callback stopped it
RECURSIVE OsEnumWindows(_, _, _, _)
OsEnumWindows(osw, i, abort, windows) ==
  IF i > Len(osw) THEN [result |-> TRUE, windows |-> windows]
  ELSE IF i > abort THEN [result |-> FALSE, windows |-> windows]
  ELSE LET r == wl_callback(i, osw[i], windows) IN
       IF r.continue THEN OsEnumWindows(osw, i + 1, abort, r.windows)
       ELSE [result |-> FALSE, windows |-> r.windows]

\* get_windows: Ok(windows) or Err
get_windows(osw, abort) ==
  LET r == OsEnumWindows(osw, 1, abort, <<>>) IN
  IF r.result = FALSE THEN [ok |-> FALSE, windows |-> <<>>, result |-> FALSE]
  ELSE [ok |-> TRUE, windows |-> r.windows, result |-> TRUE]

\* str::contains: the pattern starts at some place of the string
RECURSIVE ContainsFrom(_, _, _)
ContainsFrom(hay, needle, at) ==
  IF at + Len(needle) - 1 > Len(hay) THEN FALSE
  ELSE IF SubSeq(hay, at, at + Len(needle) - 1) = needle THEN TRUE
  ELSE ContainsFrom(hay, needle, at + 1)

Contains(hay, needle) == ContainsFrom(hay, needle, 1)

\* .iter().filter(..).next(): the first element the filter keeps (keep[i]: the
\* filter's answer for the i-th element)
RECURSIVE FirstFrom(_, _, _)
FirstFrom(windows, keep, i) ==
  IF i > Len(windows) THEN [some |-> FALSE, window |-> [handle |-> NULL_HWND, name |-> <<>>]]
  ELSE IF keep[i] THEN [some |-> TRUE, window |-> windows[i]]
  ELSE FirstFrom(windows, keep, i + 1)

\* mutant: the last element the filter keeps
WindowFinder_find_Last(windows, name) ==
  LET kept == SelectSeq(windows, LAMBDA w : Contains(w.name, name)) IN
  IF kept = <<>> THEN [some |-> FALSE, window |-> [handle |-> NULL_HWND, name |-> <<>>]]
  ELSE [some |-> TRUE, window |-> kept[Len(kept)]]

\* WindowFinder::find, up to the window it opens the session on
WindowFinder_find(windows, name) ==
  FirstFrom(windows, [i \in DOMAIN windows |-> Contains(windows[i].name, name)], 1)

\* WindowFinder::find_exact, up to the window it opens the session on
WindowFinder_find_exact(windows, name) ==
  FirstFrom(windows, [i \in DOMAIN windows |-> windows[i].name = name], 1)

\* the names asked for
Queries == {<<>>, <<"a">>, <<"b">>, <<"a", "b">>, <<"a", "NUL">>}

WindowLists == UNION {[1 .. n -> OsWindowKinds] : n \in 0 .. MaxWindows}

InitEnum ==
  /\ target = 1
  /\ osRect = [h \in Hwnds |->
                 [left |-> 10, top |-> 20, right |-> 10 + h, bottom |-> 20 + MaxDim]]
  /\ osContent = "black"
  /\ dpiAware = FALSE
  /\ outstanding = NoCount
  /\ osLog = <<>>
  /\ wsb = NoSession
  /\ view = NoView
  /\ bgr = BGR_open(target, osRect)
  /\ last = NoRead
  /\ prev = NoRead
  /\ calls = 0
  /\ osWindows \in WindowLists
  /\ finder = NoFinder
  /\ found = NoFound

\* WindowFinder::new.  The log holds the EnumWindows call: n is the number
\* of windows the OS was ready to walk, ok what the call returned.
FinderNew ==
  /\ ~finder.built
  /\ \E abort \in 0 .. Len(osWindows) :
       LET r == get_windows(osWindows, abort) IN
       /\ finder' = [built |-> r.ok, windows |-> r.windows]
       /\ last' = [NoRead EXCEPT !.op = "finder_new", !.ok = r.ok]
       /\ osLog' = <<Ev("EnumWindows", -1, NoH, NoH, abort, r.result)>>
  /\ UNCHANGED <<target, osRect, osContent, dpiAware, outstanding, wsb, view,
                 bgr, prev, calls, osWindows, found>>

\* find / find_exact: None, or Some(WindowScreenshotBuffer::new(handle))
Resolve(op, name, m) ==
  IF ~m.some
    THEN /\ found' = [op |-> op, name |-> name, some |-> FALSE,
                      handle |-> NULL_HWND, ok |-> FALSE]
         /\ UNCHANGED <<wsb, osLog, dpiAware, outstanding, calls>>
    ELSE \E os \in OsOutcomesNew, checks \in OverflowChecks(osRect[m.window.handle]) :
           LET r == WSB_new(m.window.handle, osRect, os, checks) IN
           /\ found' = [op |-> op, name |-> name, some |-> TRUE,
                        handle |-> m.window.handle, ok |-> r.ok]
           /\ wsb' = IF r.ok THEN r.self ELSE wsb
           /\ dpiAware' = TRUE
           /\ Issue(r.log)

Find ==
  /\ finder.built
  /\ calls < MaxCalls
  /\ \E name \in Queries : Resolve("find", name, WindowFinder_find(finder.windows, name))
  /\ last' = [NoRead EXCEPT !.op = "find"]
  /\ UNCHANGED <<target, osRect, osContent, view, bgr, prev, osWindows, finder>>

FindExact ==
  /\ finder.built
  /\ calls < MaxCalls
  /\ \E name \in Queries :
       Resolve("find_exact", name, WindowFinder_find_exact(finder.windows, name))
  /\ last' = [NoRead EXCEPT !.op = "find_exact"]
  /\ UNCHANGED <<target, osRect, osContent, view, bgr, prev, osWindows, finder>>

NextEnum == FinderNew \/ Find \/ FindExact

SpecEnum == InitEnum /\ [][NextEnum]_vars

----------------------------------------------------------------------------
(* Reading osLog *)

ReadOps == {"get_bgr_screenshot", "get_rgb_screenshot", "bgr_read"}

ViewOps == {"get_bgr_screenshot", "get_rgb_screenshot"}

\* the release call that pairs with an acquisition call
Pairing == [GetDC |-> "ReleaseDC", CreateCompatibleDC |-> "DeleteDC",
            CreateCompatibleBitmap |-> "DeleteObject"]

IsAcquired(e) == e.call \in AcquireCalls /\ e.ok

IsRelease(e) == e.call \in ReleaseCalls

\* the call made the operation return an error
Failing(e) ==
  \/ ~e.ok /\ e.call # "SetProcessDpiAwareness"
  \/ e.call = "GetDIBits" /\ (e.n = 0 \/ e.n = ERROR_INVALID_PARAMETER)

Calls(log, name) == {i \in DOMAIN log : log[i].call = name}

----------------------------------------------------------------------------
(* C1: on every exit path of a capture read every handle acquired during   *)
(* the call is released exactly once, by the release call of its kind,     *)
(* before the call returns; acquisitions and releases balance for each     *)
(* resource kind after any sequence of reads, and nothing is released      *)
(* twice or without having been acquired.                                  *)
C1_ReleasedExactlyOnce ==
  /\ \A k \in Kinds : outstanding[k] = 0
  /\ \A i \in DOMAIN osLog :
       IsAcquired(osLog[i]) =>
         Cardinality({j \in DOMAIN osLog :
            /\ j > i
            /\ osLog[j].call = Pairing[osLog[i].call]
            /\ osLog[j].obj = osLog[i].obj}) = 1
  /\ \A j \in DOMAIN osLog :
       IsRelease(osLog[j]) =>
         /\ \E i \in 1 .. j - 1 :
              IsAcquired(osLog[i]) /\ osLog[i].obj = osLog[j].obj
                /\ osLog[j].call = Pairing[osLog[i].call]
         /\ \A i \in DOMAIN osLog :
              (IsRelease(osLog[i]) /\ osLog[i].obj = osLog[j].obj) => i = j

\* a read that held all three handles when the OS rejected the selection
C1_Witness ==
  /\ last.op \in ReadOps /\ ~last.ok
  /\ \E i \in Calls(osLog, "SelectObject") : ~osLog[i].ok
  /\ \A k \in Kinds : Acquisitions(osLog, k) = 1 /\ Releases(osLog, k) = 1

(* C2: the buffer of a session has exactly 4 * width * height bytes in     *)
(* every state, and open sets width and height to those of the rectangle   *)
(* the window has at open: the buffer of a session opened on a window of   *)
(* W by H has 4 * W * H bytes after open and after any number of reads.    *)
C2_BufferLength ==
  /\ [](wsb.open => Len(wsb.buffer) = 4 * wsb.width * wsb.height)
  /\ [][(calls' # calls /\ last'.op = "new" /\ last'.ok) =>
          /\ wsb'.width = osRect[wsb'.handle].right - osRect[wsb'.handle].left
          /\ wsb'.height = osRect[wsb'.handle].bottom - osRect[wsb'.handle].top
          /\ Len(wsb'.buffer) = 4 * wsb'.width * wsb'.height]_vars

C2_Witness ==
  /\ last.op \in ViewOps /\ last.ok /\ prev.op \in ViewOps /\ prev.ok
  /\ wsb.width > 0 /\ wsb.height > 0
  /\ Len(wsb.buffer) = 4 * wsb.width * wsb.height

\* every OS call of the latest operation reported success
OsObliged == \A i \in DOMAIN osLog : osLog[i].ok

(* C3: for a window whose rectangle is 0 by 0, open succeeds with a        *)
(* zero-length buffer and a following read returns success, when the OS    *)
(* fails no call.                                                          *)
C3_EmptyWindowReads ==
  (wsb.open /\ wsb.width = 0 /\ wsb.height = 0 /\ last.op \in ViewOps /\ OsObliged)
    => (last.ok /\ Len(wsb.buffer) = 0)

(* C4, as stated: two swapped-view requests in sequence, the window       *)
(* showing the same and both reads producing the same bytes, leave the     *)
(* buffer in the native byte order the reads produced.                     *)
C4_SecondRequestRestores ==
  ( /\ last.op = "get_rgb_screenshot" /\ last.ok
    /\ prev.op = "get_rgb_screenshot" /\ prev.ok
    /\ prev.content = last.content /\ prev.read = last.read )
    => wsb.buffer = prev.read

(* C4, amended: every successful swapped-view request leaves the buffer    *)
(* holding what its own read produced with byte 0 and byte 2 of every      *)
(* 4-byte group exchanged and bytes 1 and 3 in place, whatever an earlier  *)
(* request did; one more exchange of that buffer gives the read bytes.     *)
C4_SwappedOnceAfterEachRequest ==
  (last.op = "get_rgb_screenshot" /\ last.ok) =>
    /\ Len(wsb.buffer) = Len(last.read)
    /\ \A g \in 0 .. (Len(last.read) \div 4) - 1 :
         /\ wsb.buffer[4 * g + 1] = last.read[4 * g + 3]
         /\ wsb.buffer[4 * g + 2] = last.read[4 * g + 2]
         /\ wsb.buffer[4 * g + 3] = last.read[4 * g + 1]
         /\ wsb.buffer[4 * g + 4] = last.read[4 * g + 4]
    /\ SwapPixels(wsb.buffer) = last.read

\* the second of two swapped-view requests whose reads produced the same
\* bytes, and the buffer is not in the order the reads produced
C4_Witness ==
  /\ last.op = "get_rgb_screenshot" /\ last.ok
  /\ prev.op = "get_rgb_screenshot" /\ prev.ok
  /\ prev.content = last.content /\ prev.read = last.read
  /\ wsb.buffer # last.read

(* C5: with the window showing the same, two successful reads of one       *)
(* session leave byte-identical buffer contents.                           *)
C5_ReadsReproduce ==
  ( /\ last.op \in ViewOps /\ last.ok /\ prev.op \in ViewOps /\ prev.ok
    /\ prev.content = last.content )
    => last.read = prev.read

(* C6, as stated: a read on an open session acquires no OS resource.       *)
C6_ReadAcquiresNothing ==
  last.op \in ReadOps => \A k \in Kinds : Acquisitions(osLog, k) = 0

(* C6, amended: open acquires no handle and no handle is held between      *)
(* calls; every read asks the OS for a screen context anew, and a          *)
(* successful read acquires exactly one screen context, one memory context *)
(* and one bitmap, all released when it returns.  Only the pixel buffer is *)
(* reused across reads.                                                    *)
C6_EveryReadAcquires ==
  /\ last.op = "new" => \A k \in Kinds : Acquisitions(osLog, k) = 0
  /\ \A k \in Kinds : outstanding[k] = 0
  /\ last.op \in ReadOps => Calls(osLog, "GetDC") # {}
  /\ (last.op \in ReadOps /\ last.ok) =>
       \A k \in Kinds : Acquisitions(osLog, k) = 1 /\ Releases(osLog, k) = 1

\* the second successful read of a session: three more handles acquired
C6_Witness ==
  /\ last.op \in ViewOps /\ last.ok /\ prev.op \in ViewOps /\ prev.ok
  /\ \A k \in Kinds : Acquisitions(osLog, k) = 1

(* C7: in every successful read the bitmap is selected into the memory     *)
(* context, then the window is rendered into that context, then the pixels *)
(* are extracted; no read extracts without having rendered.                *)
C7_SelectRenderExtract ==
  last.op \in ReadOps =>
    /\ \A k \in Calls(osLog, "GetDIBits") :
         \E i, j \in 1 .. k - 1 :
           /\ i < j
           /\ osLog[i].call = "SelectObject" /\ osLog[i].ok
           /\ osLog[j].call = "PrintWindow" /\ osLog[j].ok
           /\ osLog[j].hdc = osLog[i].hdc
    /\ last.ok => Calls(osLog, "GetDIBits") # {}

\* needle occurs in hay
IsSubstring(hay, needle) ==
  \E at \in 1 .. Len(hay) + 1 :
    /\ at + Len(needle) - 1 <= Len(hay)
    /\ \A k \in 1 .. Len(needle) : hay[at + k - 1] = needle[k]

\* the places of finder.windows whose title the latest lookup asks for
Matching ==
  {i \in DOMAIN finder.windows :
     IF found.op = "find" THEN IsSubstring(finder.windows[i].name, found.name)
     ELSE finder.windows[i].name = found.name}

(* C8: find(name) resolves to the first recorded window, in enumeration    *)
(* order, whose title contains name, find_exact(name) to the first whose   *)
(* title equals name; each resolves to nothing exactly when no recorded    *)
(* window matches, and the session is opened on the window resolved to.    *)
C8_FirstMatch ==
  found.op \in {"find", "find_exact"} =>
    /\ found.some <=> Matching # {}
    /\ found.some =>
         \E i \in Matching :
           /\ finder.windows[i].handle = found.handle
           /\ \A j \in Matching : i <= j
    /\ (found.some /\ found.ok) => (wsb.open /\ wsb.handle = found.handle)

\* a substring lookup that two recorded windows match
C8_Witness ==
  /\ found.op = "find" /\ found.some /\ found.name # <<>>
  /\ Cardinality(Matching) >= 2
  /\ \E i, j \in Matching : i < j /\ finder.windows[i].handle = found.handle

\* the windows of the walk that are visible and have a non-empty title
Titled == {i \in DOMAIN osWindows : osWindows[i].visible /\ osWindows[i].text # <<>>}

\* the handles recorded are those of S, once each, in walk order
RecordsExactly(S) ==
  /\ Len(finder.windows) = Cardinality(S)
  /\ \A k \in DOMAIN finder.windows : finder.windows[k].handle \in S
  /\ \A k, l \in DOMAIN finder.windows :
       k < l => finder.windows[k].handle < finder.windows[l].handle

(* C9, as stated: the list has exactly one record for each window that is  *)
(* visible and has a non-empty title, none for any other, in walk order,   *)
(* and each record's title equals the title the OS reports for the window. *)
C9_OneRecordPerTitledWindow ==
  finder.built =>
    /\ RecordsExactly(Titled)
    /\ \A k \in DOMAIN finder.windows :
         finder.windows[k].name = osWindows[finder.windows[k].handle].text

\* the windows wl_callback records: visible, a title length other than 0
\* reported, and a title read that copies at least one unit
Readable ==
  {i \in DOMAIN osWindows :
     /\ osWindows[i].visible
     /\ osWindows[i].textLen # 0
     /\ osWindows[i].textRead /\ osWindows[i].text # <<>>}

(* C9, amended: the list has exactly one record, in walk order, for each   *)
(* window that is visible, reports a title length other than 0 and whose   *)
(* title read copies at least one unit, and none for any other (a window   *)
(* whose title cannot be read is skipped).  A record's title has the       *)
(* reported length: it is the title the OS copies, cut to that length or   *)
(* filled up to it with NUL, every unpaired surrogate replaced by U+FFFD;  *)
(* it equals the OS title when that is of the reported length and has no   *)
(* unpaired surrogate.                                                     *)
C9_OneRecordPerReadableWindow ==
  finder.built =>
    /\ RecordsExactly(Readable)
    /\ \A k \in DOMAIN finder.windows :
         LET w == osWindows[finder.windows[k].handle]
             name == finder.windows[k].name
         IN /\ Len(name) = w.textLen
            /\ \A c \in 1 .. Len(name) :
                 name[c] = IF c > Len(w.text) THEN "NUL"
                           ELSE IF w.text[c] = "D8" THEN "FFFD" ELSE w.text[c]
            /\ (w.textLen = Len(w.text) /\ \A c \in DOMAIN w.text : w.text[c] # "D8")
                 => name = w.text

\* a walk that skipped a visible window with a title that could not be
\* read, and recorded a window after it
C9_Witness ==
  /\ finder.built
  /\ \E i, j \in DOMAIN osWindows :
       /\ i < j /\ i \in Titled /\ i \notin Readable /\ j \in Readable
       /\ \E k \in DOMAIN finder.windows : finder.windows[k].handle = j

(* C10: when an OS step of a read fails the read returns an error at once: *)
(* the failed step is the last step of the read, only the releases of the  *)
(* handles held follow it, no step is issued twice, and a view request     *)
(* built on the read returns the error without swapping bytes or handing   *)
(* back a view.  A read none of whose steps fails returns success.         *)
C10_FailFast ==
  last.op \in ReadOps =>
    /\ last.ok <=> ~(\E i \in DOMAIN osLog : Failing(osLog[i]))
    /\ \A i \in DOMAIN osLog :
         Failing(osLog[i]) => \A j \in DOMAIN osLog : j > i => IsRelease(osLog[j])
    /\ \A i, j \in DOMAIN osLog :
         (osLog[i].call = osLog[j].call /\ ~IsRelease(osLog[i])) => i = j
    /\ (last.op \in ViewOps /\ ~last.ok) =>
         (view = NoView /\ wsb.buffer = last.read)

\* a swapped-view request whose extraction copied no row, on a buffer that
\* a swap would change
C10_Witness ==
  /\ last.op = "get_rgb_screenshot" /\ ~last.ok
  /\ \E i \in Calls(osLog, "GetDIBits") : osLog[i].n = 0
  /\ SwapPixels(wsb.buffer) # wsb.buffer

----------------------------------------------------------------------------
\* the bitmap WindowBGRBuffer::read created: its pixels are rect_width *
\* rect_height of the rectangle the read measured
BitmapPixels(log) ==
  LET made == {i \in Calls(log, "CreateCompatibleBitmap") : log[i].ok} IN
  IF made = {} THEN 0 ELSE log[CHOOSE i \in made : TRUE].n

(* C11: after a successful WindowBGRBuffer::read the buffer's length is    *)
(* 4 * width * height of the window rectangle measured in that read.       *)
C11_BgrBufferLength ==
  (last.op = "bgr_read" /\ last.ok) =>
    Len(bgr.buffer) = BytesPerPixel * BitmapPixels(osLog)

(* C12, as stated: a read uses the width and height recorded at open for   *)
(* the bitmap and does not query the window rectangle again.               *)
C12_ReadsNeverMeasure ==
  last.op \in ReadOps =>
    /\ Calls(osLog, "GetWindowRect") = {}
    /\ \A i \in Calls(osLog, "CreateCompatibleBitmap") :
         osLog[i].n = IF last.op = "bgr_read" THEN Area(bgr.width, bgr.height)
                      ELSE Area(wsb.width, wsb.height)

(* C12, amended: the width, height and buffer length of a                  *)
(* WindowScreenshotBuffer change in no step after open; its read does not  *)
(* query the window rectangle and sizes the bitmap and the rows it asks    *)
(* for from the width and height recorded at open, whatever the rectangle  *)
(* is now.  WindowBGRBuffer::read queries the rectangle in every read that *)
(* got its screen context and sizes the bitmap from that measurement.      *)
C12_FixedAtOpenUnlessMeasured ==
  /\ [][(last'.op # "new" \/ calls' = calls) =>
          /\ wsb'.handle = wsb.handle
          /\ wsb'.width = wsb.width /\ wsb'.height = wsb.height
          /\ Len(wsb'.buffer) = Len(wsb.buffer)]_vars
  /\ [](last.op \in ViewOps =>
          /\ Calls(osLog, "GetWindowRect") = {}
          /\ \A i \in Calls(osLog, "CreateCompatibleBitmap") :
               osLog[i].n = Area(wsb.width, wsb.height)
          /\ \A i \in Calls(osLog, "GetDIBits") :
               osLog[i].ok => osLog[i].n = (IF wsb.width > 0 THEN wsb.height ELSE 0))
  /\ [][(last'.op = "bgr_read" /\ calls' # calls) =>
          /\ (\E i \in Calls(osLog', "GetDC") : osLog'[i].ok)
               => \E j \in Calls(osLog', "GetWindowRect") : osLog'[j].hwnd = bgr.handle
          /\ \A i \in Calls(osLog', "CreateCompatibleBitmap") :
               osLog'[i].n = Area(Width(osRect[bgr.handle]), Height(osRect[bgr.handle]))]_vars

\* a successful read of a session whose window no longer has the size it
\* had at open
C12_Witness ==
  /\ last.op \in ViewOps /\ last.ok
  /\ wsb.width > 0 /\ wsb.height > 0
  /\ Area(Width(osRect[wsb.handle]), Height(osRect[wsb.handle]))
       # Area(wsb.width, wsb.height)
  /\ \E i \in Calls(osLog, "CreateCompatibleBitmap") :
       osLog[i].ok /\ osLog[i].n = Area(wsb.width, wsb.height)

\* the place in the log of the call that handed out a handle
AcquiredAt(log, obj) ==
  CHOOSE i \in DOMAIN log : IsAcquired(log[i]) /\ log[i].obj = obj

(* C13: on every exit path of a read the handles are released in the       *)
(* reverse of the order they were acquired in (the bitmap, then the memory *)
(* context, then the screen context), and the memory context is not live   *)
(* after the screen context it was created from was released.              *)
C13_ReverseOrderRelease ==
  last.op \in ReadOps =>
    /\ \A i, j \in DOMAIN osLog :
         (IsRelease(osLog[i]) /\ IsRelease(osLog[j]) /\ i < j) =>
           AcquiredAt(osLog, osLog[i].obj) > AcquiredAt(osLog, osLog[j].obj)
    /\ \A i \in Calls(osLog, "ReleaseDC") :
         \A k \in 1 .. i - 1 :
           (IsAcquired(osLog[k]) /\ osLog[k].obj[1] = "memory") =>
             \E j \in k + 1 .. i - 1 :
               osLog[j].call = "DeleteDC" /\ osLog[j].obj = osLog[k].obj

(* C15: no OS call of a read is given a handle that was already released:  *)
(* a guard's release comes after the last call of the read that uses its   *)
(* handle.                                                                 *)
C15_NoUseAfterRelease ==
  last.op \in ReadOps =>
    \A i, j \in DOMAIN osLog :
      (IsRelease(osLog[i]) /\ i < j) =>
        (osLog[j].hdc # osLog[i].obj /\ osLog[j].obj # osLog[i].obj)

(* C14: the enumeration callback never stops the walk: for every window,   *)
(* whatever its visibility query, title-length query and title read give,  *)
(* it tells the OS to continue, so the windows after a skipped window are  *)
(* still recorded, and get_windows fails only when the OS walk itself      *)
(* reports failure.                                                        *)
C14_WalkNeverStopped ==
  last.op = "finder_new" =>
    /\ \A i \in DOMAIN osWindows :
         /\ wl_callback(i, osWindows[i], <<>>).continue
         /\ wl_callback(i, osWindows[i], finder.windows).continue
    /\ \A e \in Calls(osLog, "EnumWindows") :
         /\ last.ok <=> osLog[e].ok
         /\ last.ok <=> osLog[e].n = Len(osWindows)
    /\ last.ok =>
         \A j \in Readable : \E k \in DOMAIN finder.windows : finder.windows[k].handle = j

\* a walk the OS did not abort, in which the callback skipped the first
\* window and recorded the second
C14_Witness ==
  /\ last.op = "finder_new" /\ last.ok
  /\ \E e \in Calls(osLog, "EnumWindows") : osLog[e].ok
  /\ Len(osWindows) = 2 /\ 1 \notin Readable /\ 2 \in Readable
  /\ Len(finder.windows) = 1 /\ finder.windows[1].handle = 2

\* the bytes the OS supplies for the session's bitmap: the pixels of some
\* pattern, blue first
OsSupplied(self) == {Paint(p, Area(self.width, self.height)) : p \in Patterns}

(* C16: after any sequence of view requests on one session, the color tag  *)
(* of every view returned with success matches the byte order of the       *)
(* buffer it borrows: a native (BGRA) view shows the bytes as the OS       *)
(* supplied them to its own read, with nothing left swapped by an earlier  *)
(* request, and a swapped (RGBA) view shows them swapped exactly once.     *)
C16_TagMatchesByteOrder ==
  (last.op \in ViewOps /\ last.ok) =>
    /\ last.read \in OsSupplied(wsb)
    /\ view.width = wsb.width /\ view.height = wsb.height
    /\ last.op = "get_bgr_screenshot" => (view.tag = "BGRA" /\ wsb.buffer = last.read)
    /\ last.op = "get_rgb_screenshot" =>
         (view.tag = "RGBA" /\ wsb.buffer = SwapPixels(last.read))

\* a native view handed back after a swapped view of the same session had
\* left the buffer in the swapped order
C16_Witness ==
  /\ last.op = "get_bgr_screenshot" /\ last.ok /\ view.tag = "BGRA"
  /\ prev.op = "get_rgb_screenshot" /\ prev.ok
  /\ SwapPixels(prev.read) # prev.read
  /\ SwapPixels(wsb.buffer) # wsb.buffer
  /\ wsb.buffer \in OsSupplied(wsb)

----------------------------------------------------------------------------
(* Captures of windows of particular heights, on each window handle.  A    *)
(* window of ERROR_INVALID_PARAMETER rows is one of them: GetDIBits        *)
(* returns the number of rows it copied.                                   *)

RowRects ==
  {[left |-> 10, top |-> 20, right |-> 10 + w, bottom |-> 20 + h] :
     <<w, h>> \in {<<1, ERROR_INVALID_PARAMETER>>, <<MaxDim, MaxDim>>}}

InitRows ==
  /\ target \in Hwnds
  /\ \E r \in RowRects : osRect = [h \in Hwnds |-> r]
  /\ osContent \in Patterns
  /\ dpiAware = TRUE
  /\ outstanding = NoCount
  /\ osLog = WSB_new(target, osRect, OsAllOk, FALSE).log
  /\ wsb = WSB_new(target, osRect, OsAllOk, FALSE).self
  /\ view = NoView
  /\ bgr = BGR_open(target, osRect)
  /\ last = [NoRead EXCEPT !.op = "new"]
  /\ prev = NoRead
  /\ calls = 0
  /\ osWindows = <<>>
  /\ finder = NoFinder
  /\ found = NoFound

NextRows == GetBgrScreenshot \/ GetRgbScreenshot \/ BgrRead \/ Repaint

SpecRows == InitRows /\ [][NextRows]_vars

(* C17: a read that returns an error leaves the session's buffer contents  *)
(* and length, width and height exactly as they were before the call.      *)
C17_ErrorLeavesSession ==
  [][(calls' # calls /\ last'.op \in ReadOps /\ ~last'.ok) =>
       /\ wsb' = wsb
       /\ bgr'.buffer = bgr.buffer
       /\ bgr'.width = bgr.width /\ bgr'.height = bgr.height]_vars

----------------------------------------------------------------------------
(* Opening sessions on windows of large sizes.  The sizes are those whose  *)
(* byte length fits (0 by 0, 1 by 1), wraps to 0 (2^15 by 2^15, 2^30 by 1, *)
(* 2^16 by 2^14), wraps to 4 (2^30 + 1 by 1) or turns negative (23171 by   *)
(* 23171, 2^31 - 1 by 1).                                                  *)

MaxI32 == -(MinI32 + 1)

SizePairs ==
  {<<0, 0>>, <<1, 1>>,
   <<Limb \div 2, Limb \div 2>>, <<(Limb \div 4) * Limb, 1>>, <<Limb, Limb \div 4>>,
   <<(Limb \div 4) * Limb + 1, 1>>,
   <<23171, 23171>>, <<MaxI32, 1>>}

SizeRects ==
  {[left |-> 0, top |-> 0, right |-> p[1], bottom |-> p[2]] : p \in SizePairs}

InitSize ==
  /\ target \in Hwnds
  /\ \E r \in SizeRects : osRect = [h \in Hwnds |-> r]
  /\ osContent = "black"
  /\ dpiAware = FALSE
  /\ outstanding = NoCount
  /\ osLog = <<>>
  /\ wsb = NoSession
  /\ view = NoView
  /\ bgr = [handle |-> target, width |-> 0, height |-> 0, buffer |-> <<>>,
            spare |-> <<>>]
  /\ last = NoRead
  /\ prev = NoRead
  /\ calls = 0
  /\ osWindows = <<>>
  /\ finder = NoFinder
  /\ found = NoFound

\* the window is resized by its owner
ResizeTo ==
  /\ \E r \in SizeRects \ {osRect[target]} : osRect' = [osRect EXCEPT ![target] = r]
  /\ UNCHANGED <<target, osContent, dpiAware, outstanding, osLog, wsb, view,
                 bgr, last, prev, calls, osWindows, finder, found>>

NextSize == New \/ ResizeTo

SpecSize == InitSize /\ [][NextSize]_vars

\* n is 4 * w * h in the integers, for w, h >= 0
IsByteLength(n, w, h) ==
  IF w = 0 \/ h = 0 THEN n = 0
  ELSE n > 0 /\ n % BytesPerPixel = 0 /\ IsProduct(n \div BytesPerPixel, w, h)

(* C18: for every window rectangle of non-negative width W and height H    *)
(* that are i32 values, open succeeds when the rectangle can be read and   *)
(* the byte length of the buffer it allocates, 4 * W * H computed in i32   *)
(* and converted to a usize, is the product 4 * W * H of the integers.     *)
C18_ByteLengthIsProduct ==
  ( /\ last.op = "new"
    /\ \A i \in Calls(osLog, "GetWindowRect") : osLog[i].ok
    /\ \A h \in Hwnds : Width(osRect[h]) >= 0 /\ Height(osRect[h]) >= 0 )
    => /\ last.ok /\ wsb.open
       /\ IsByteLength(Len(wsb.buffer), wsb.width, wsb.height)

(* C19: the release call of the display-context guard always names the     *)
(* default (null) window as its target, for every window handle the        *)
(* context was acquired from, and passes exactly the context handle that   *)
(* the acquisition returned.                                               *)
C19_ReleaseDCToNullWindow ==
  last.op \in ReadOps =>
    /\ \A i \in Calls(osLog, "GetDC") :
         /\ osLog[i].hwnd = target /\ osLog[i].hwnd # NULL_HWND
         /\ osLog[i].ok =>
              \E j \in Calls(osLog, "ReleaseDC") : j > i /\ osLog[j].obj = osLog[i].obj
    /\ \A j \in Calls(osLog, "ReleaseDC") :
         /\ osLog[j].hwnd = NULL_HWND
         /\ \E i \in 1 .. j - 1 :
              osLog[i].call = "GetDC" /\ osLog[i].ok /\ osLog[i].obj = osLog[j].obj

\* a read on the second window that got its screen context and released it
C19_Witness ==
  /\ last.op \in ReadOps /\ target = 2
  /\ \E i \in Calls(osLog, "GetDC") : osLog[i].ok /\ osLog[i].hwnd = 2
  /\ \E j \in Calls(osLog, "ReleaseDC") : osLog[j].hwnd = NULL_HWND

====
